---- MODULE Spec2Model ----
(***************************************************************************)
(* A model of the anastasia temporal-attribute framework                   *)
(* (src/src/anastasia/anastasia.py): the TemporalAttribute descriptor with *)
(* its three per-instance dictionaries, the TemporalValue handle, and the  *)
(* Anastasia.context scope that sets and restores the class attribute      *)
(* as_of_timestamp.  Values are references into a heap of mutable objects  *)
(* so that copy.deepcopy, copy.copy and aliasing can be told apart.        *)
(***************************************************************************)
EXTENDS Integers, FiniteSets, Sequences, TLC

\* ------------------------------------------------------------------ bounds
MaxTime == 2    \* datetime.now() ranges over 0..MaxTime
MaxObjs == 3    \* number of heap objects that can be allocated
MaxWrites == 3  \* assignments, commits and lazy initialisations of a run
MaxDepth == 2   \* depth of nested "with x.context(ts)" blocks (SpecScope)
MaxScopeTime == 1    \* the viewpoints of SpecScope, the clock of SpecPairs
MaxScopeWrites == 1  \* the writes of a run of SpecScope
MaxPairWrites == 3   \* the writes of a run of SpecPairs
MaxFieldTime == 1    \* the clock and the viewpoints of SpecField
MaxFieldWrites == 3  \* the writes of a run of SpecField
MaxThreads == 2  \* threads that commit to one pair
MaxThreadTime == 1  \* the clock of SpecThreads runs over 0..MaxThreadTime

\* --------------------------------------------------------------- constants
None == -1              \* Python's None (as a value and as a viewpoint)
Absent == -2            \* a class whose __dict__ holds no as_of_timestamp
New == 0                \* argument: an object the caller has just constructed
NoErr == "NoErr"        \* no exception in flight

Time == 0..MaxTime
Data == {0, 1}
Refs == 1..MaxObjs
\* Immutable values (str, int): copy.deepcopy returns the object itself and
\* nothing can mutate it, so they need no heap cell.  "AAA".
Atoms == {-11}

\* The class hierarchy of the tests: temporal classes derived from Anastasia.
Classes == {"Anastasia", "Company", "Person"}
Mro(c) == IF c = "Anastasia" THEN <<"Anastasia">> ELSE <<c, "Anastasia">>

Instances == {"c1", "c2", "p1"}
TypeOf(i) == IF i = "p1" THEN "Person" ELSE "Company"

\* One TemporalAttribute descriptor per declared attribute.
Fields == {"credit_rating", "data", "age"}
OwnerOf(f) == IF f = "age" THEN "Person" ELSE "Company"
Pairs == {p \in Instances \X Fields : TypeOf(p[1]) = OwnerOf(p[2])}

\* How copy.deepcopy / copy.copy treat a mutable object:
\*   "deep"    deepcopy succeeds
\*   "shallow" deepcopy raises TypeError, the object has __copy__
\*   "alias"   deepcopy raises TypeError, the object has no __copy__
\*   "raise"   deepcopy raises an exception other than TypeError/AttributeError
Kinds == {"deep", "shallow", "alias", "raise"}

\* The value the decorated function returns: a string or number for
\* credit_rating and age, a fresh dict for data.
FactoryReturnsAtom(f) == f # "data"
FactoryAtom(f) == -11

VARIABLES
    now,                       \* the clock read by datetime.datetime.now()
    as_of_timestamp,           \* class -> own attribute (Absent, None or a time)
    ctx_stack,                 \* active context() generators, innermost last;
                               \* "observed" is the viewpoint seen before entry,
                               \* "timestamp" the argument of the call
    exc,                       \* exception propagating in the caller, or NoErr
    instance_snapshots,        \* field -> WeakKeyDictionary instance -> dict
    instance_current_values,   \* field -> WeakKeyDictionary instance -> value
    instance_value_set,        \* field -> WeakKeyDictionary instance -> bool
    objs,                      \* heap: ref -> [kind, cell]
    cells,                     \* heap: the content of an object, cell -> data
    handle,                    \* the TemporalValue the caller holds
    writes,                    \* assignments, commits and lazy loads so far
    factory_calls,             \* <<instance, field>> -> calls of the factory
    last,                      \* the last operation and what it returned
    threads                    \* thread -> its position inside a commit

vars == <<now, as_of_timestamp, ctx_stack, exc, instance_snapshots,
          instance_current_values, instance_value_set, objs, cells,
          handle, writes, factory_calls, last, threads>>

\* ----------------------------------------------------------------- helpers
SetMax(S) == CHOOSE x \in S : \A y \in S : y <= x

EmptyDict == <<>>

\* d[k] = v on a Python dict: an existing key is overwritten.
DictSet(d, k, v) == (k :> v) @@ d

\* The descriptor's state and the heap, as one record the operations transform.
Store == [snaps |-> instance_snapshots, cur |-> instance_current_values,
          vset |-> instance_value_set, objs |-> objs, cells |-> cells]

\* getattr(owner, 'as_of_timestamp', None): the first class of the MRO whose
\* own __dict__ holds the attribute.
GetAttrTs(attr, c) ==
    LET m == Mro(c)
        hits == {k \in 1..Len(m) : attr[m[k]] # Absent}
    IN IF hits = {} THEN None
       ELSE attr[m[CHOOSE k \in hits : \A j \in hits : k <= j]]

\* cls.as_of_timestamp, read in context(): the same attribute lookup.
ClsAttr(attr, c) == GetAttrTs(attr, c)

\* A context() that takes None for "leave the viewpoint as it is".
SetTimestampUnlessNone(attr, c, ts) ==
    IF ts = None THEN attr ELSE [attr EXCEPT ![c] = ts]

\* "cls.as_of_timestamp = timestamp" in context(): an assignment to the
\* class the scope is entered on.
SetTimestamp(attr, c, ts) == [attr EXCEPT ![c] = ts]

\* A context() whose exit clears the viewpoint instead of restoring it.
RestoreNone(attr, frame, e) == [attr EXCEPT ![frame.cls] = None]

\* A context() without try/finally: an exception skips the restore.
RestoreUnlessRaised(attr, frame, e) ==
    IF e = NoErr THEN [attr EXCEPT ![frame.cls] = frame.original_timestamp]
    ELSE attr

\* The finally clause of context(): "cls.as_of_timestamp = original_timestamp",
\* whether or not an exception e is in flight.
Restore(attr, frame, e) == [attr EXCEPT ![frame.cls] = frame.original_timestamp]

\* Per-instance data created with the has-been-set flag raised.
InitInstanceDataSet(st, f, i) ==
    [st EXCEPT
       !.snaps[f] = IF i \in DOMAIN st.snaps[f] THEN @ ELSE (i :> EmptyDict) @@ @,
       !.cur[f]   = IF i \in DOMAIN st.cur[f] THEN @ ELSE (i :> None) @@ @,
       !.vset[f]  = IF i \in DOMAIN st.vset[f] THEN @ ELSE (i :> TRUE) @@ @]

\* "if instance not in self._instance_...: self._instance_...[instance] = ..."
InitInstanceData(st, f, i) ==
    [st EXCEPT
       !.snaps[f] = IF i \in DOMAIN st.snaps[f] THEN @ ELSE (i :> EmptyDict) @@ @,
       !.cur[f]   = IF i \in DOMAIN st.cur[f] THEN @ ELSE (i :> None) @@ @,
       !.vset[f]  = IF i \in DOMAIN st.vset[f] THEN @ ELSE (i :> FALSE) @@ @]

\* Allocation of a new heap object.  An object is a container whose content
\* (the items of a dict, the list inside it) lives in a cell; cell = 0 asks
\* for a cell of its own, another number shares that cell.
Alloc(st, kind, cell, data) ==
    LET r == Len(st.objs) + 1
        c == IF cell = 0 THEN r ELSE cell
    IN [st EXCEPT !.objs = Append(@, [kind |-> kind, cell |-> c]),
                  !.cells = Append(@, IF cell = 0 THEN data ELSE 0)]

NewRef(st) == Len(st.objs) + 1

IsRef(v) == v > 0

\* What a value looks like: the content of an object, or the immutable value.
Content(o, c, v) == IF IsRef(v) THEN c[o[v].cell] ELSE v

\* The try/except around copy.deepcopy in _set_snapshot_for_instance:
\* [st, value, err].
CopyForSnapshot(st, v) ==
    IF ~IsRef(v) THEN [st |-> st, value |-> v, err |-> NoErr]
    ELSE LET o == st.objs[v] IN
      CASE o.kind = "deep" ->
             [st |-> Alloc(st, o.kind, 0, st.cells[o.cell]),
              value |-> NewRef(st), err |-> NoErr]
        [] o.kind = "shallow" ->
             [st |-> Alloc(st, o.kind, o.cell, 0),
              value |-> NewRef(st), err |-> NoErr]
        [] o.kind = "alias" ->
             [st |-> st, value |-> v, err |-> NoErr]
        [] OTHER ->
             [st |-> st, value |-> None, err |-> "CopyError"]

\* An insertion under the timestamp before the current one.
InsertSnapshotEarlier(snaps, t, v) == DictSet(snaps, IF t > 0 THEN t - 1 ELSE 0, v)

\* An insertion that drops the entries the history holds.
InsertSnapshotOnly(snaps, t, v) == (t :> v)

\* An insertion that keeps the entry a timestamp already holds (setdefault).
InsertSnapshotKeepFirst(snaps, t, v) ==
    IF t \in DOMAIN snaps THEN snaps ELSE DictSet(snaps, t, v)

\* self._instance_snapshots[instance][datetime.datetime.now()] = snapshot_value
InsertSnapshot(snaps, t, v) == DictSet(snaps, t, v)

\* A commit that leaves the has-been-set flag alone.
SetSnapshotNoFlag(st, f, i, v, t) ==
    LET s1 == InitInstanceData(st, f, i)
        s2 == [s1 EXCEPT !.cur[f][i] = v]
        cp == CopyForSnapshot(s2, v)
    IN IF cp.err # NoErr
       THEN [st |-> s2, err |-> cp.err, ret |-> None]
       ELSE [st |-> [cp.st EXCEPT !.snaps[f][i] = InsertSnapshot(@, t, cp.value)],
             err |-> NoErr, ret |-> None]

\* A descriptor that keeps one current value for all its instances.
SetSnapshotShared(st, f, i, v, t) ==
    LET s1 == InitInstanceData(st, f, i)
        s2 == [s1 EXCEPT !.cur[f] = [j \in DOMAIN @ |-> v], !.vset[f][i] = TRUE]
        cp == CopyForSnapshot(s2, v)
    IN IF cp.err # NoErr
       THEN [st |-> s2, err |-> cp.err, ret |-> None]
       ELSE [st |-> [cp.st EXCEPT !.snaps[f][i] = InsertSnapshot(@, t, cp.value)],
             err |-> NoErr, ret |-> None]

\* TemporalAttribute._set_snapshot_for_instance(instance, value) at clock t:
\* [st, err, ret].  The method has no return statement.
SetSnapshotForInstance(st, f, i, v, t) ==
    LET s1 == InitInstanceData(st, f, i)
        s2 == [s1 EXCEPT !.cur[f][i] = v, !.vset[f][i] = TRUE]
        cp == CopyForSnapshot(s2, v)
    IN IF cp.err # NoErr
       THEN [st |-> s2, err |-> cp.err, ret |-> None]
       ELSE [st |-> [cp.st EXCEPT !.snaps[f][i] = InsertSnapshot(@, t, cp.value)],
             err |-> NoErr, ret |-> None]

\* A comprehension with "ts < timestamp", and one without a condition.
ValidSnapshotsBefore(snaps, ts) == {k \in DOMAIN snaps : k < ts}

ValidSnapshotsAll(snaps, ts) == DOMAIN snaps

\* The dict comprehension of __get__: the timestamps at or before ts.
ValidSnapshots(snaps, ts) == {k \in DOMAIN snaps : k <= ts}

\* max(valid_snapshots.keys())
MostRecentTimestamp(valid) == SetMax(valid)

\* self._initial_value_func(instance): [st, value].
InitialValue(st, f) ==
    IF FactoryReturnsAtom(f)
    THEN [st |-> st, value |-> FactoryAtom(f)]
    ELSE [st |-> Alloc(st, "deep", 0, 0), value |-> NewRef(st)]

\* A lazy-loading branch that loads when the history is empty.
LazyLoadIfNoHistory(st, f, i, t) ==
    IF st.snaps[f][i] = EmptyDict
    THEN LET iv == InitialValue(st, f)
             r == SetSnapshotForInstance(iv.st, f, i, iv.value, t)
         IN [st |-> r.st, err |-> r.err, called |-> TRUE]
    ELSE [st |-> st, err |-> NoErr, called |-> FALSE]

\* A lazy-loading branch that does not look at the has-been-set flag.
LazyLoadAlways(st, f, i, t) ==
    LET iv == InitialValue(st, f)
        r == SetSnapshotForInstance(iv.st, f, i, iv.value, t)
    IN [st |-> r.st, err |-> r.err, called |-> TRUE]

\* The lazy-loading branch of __get__: [st, err, called].
LazyLoad(st, f, i, t) ==
    IF ~st.vset[f][i]
    THEN LET iv == InitialValue(st, f)
             r == SetSnapshotForInstance(iv.st, f, i, iv.value, t)
         IN [st |-> r.st, err |-> r.err, called |-> TRUE]
    ELSE [st |-> st, err |-> NoErr, called |-> FALSE]

\* The instance argument left at its default, None; the instance __get__
\* receives when the attribute is looked up on the class.
NoInstance == ""

\* A __get__ that wraps the historical value in a handle as well.
DescGetWrapping(st, f, i, ts, t) ==
    LET s1 == InitInstanceData(st, f, i) IN
    IF ts # None
    THEN LET snaps == s1.snaps[f][i]
             valid == ValidSnapshots(snaps, ts)
         IN IF valid = {}
            THEN [st |-> s1, err |-> "ValueError", form |-> "none",
                  value |-> None, called |-> FALSE]
            ELSE [st |-> s1, err |-> NoErr, form |-> "handle",
                  value |-> snaps[MostRecentTimestamp(valid)], called |-> FALSE]
    ELSE LET r == LazyLoad(s1, f, i, t)
         IN IF r.err # NoErr
            THEN [st |-> r.st, err |-> r.err, form |-> "none",
                  value |-> None, called |-> r.called]
            ELSE [st |-> r.st, err |-> NoErr, form |-> "handle",
                  value |-> r.st.cur[f][i], called |-> r.called]

\* TemporalAttribute.__get__(instance, owner) with owner.as_of_timestamp = ts
\* at clock t: [st, err, form, value, called].
DescGet(st, f, i, ts, t) ==
    IF i = NoInstance
    THEN [st |-> st, err |-> NoErr, form |-> "descriptor", value |-> None,
          called |-> FALSE]
    ELSE
    LET s1 == InitInstanceData(st, f, i) IN
    IF ts # None
    THEN LET snaps == s1.snaps[f][i]
             valid == ValidSnapshots(snaps, ts)
         IN IF valid = {}
            THEN [st |-> s1, err |-> "ValueError", form |-> "none",
                  value |-> None, called |-> FALSE]
            ELSE [st |-> s1, err |-> NoErr, form |-> "raw",
                  value |-> snaps[MostRecentTimestamp(valid)], called |-> FALSE]
    ELSE LET r == LazyLoad(s1, f, i, t)
         IN IF r.err # NoErr
            THEN [st |-> r.st, err |-> r.err, form |-> "none",
                  value |-> None, called |-> r.called]
            ELSE [st |-> r.st, err |-> NoErr, form |-> "handle",
                  value |-> r.st.cur[f][i], called |-> r.called]

\* A __set__ that records the assigned value as a snapshot.
DescSetRecording(st, f, i, v) == SetSnapshotForInstance(st, f, i, v, 0).st

\* TemporalAttribute.__set__(instance, value)
DescSet(st, f, i, v) ==
    LET s1 == InitInstanceData(st, f, i)
    IN [s1 EXCEPT !.cur[f][i] = v, !.vset[f][i] = TRUE]

\* A set_snapshot that takes the field's current value when it gets none.
SnapshotValueCurrent(h, arg) ==
    IF arg # None THEN arg ELSE instance_current_values[h.field][h.inst]

\* A set_snapshot that ignores its argument.
SnapshotValueHeld(h, arg) == h.value

\* TemporalValue.set_snapshot: "value if value is not None else self._value"
SnapshotValue(h, arg) == IF arg # None THEN arg ELSE h.value

\* A descriptor set_snapshot that does nothing when it gets no instance.
DescSetSnapshotSilent(st, f, inst, v, t) ==
    IF inst = NoInstance
    THEN [st |-> st, err |-> NoErr, ret |-> None]
    ELSE SetSnapshotForInstance(st, f, inst, v, t)

\* TemporalAttribute.set_snapshot(value, instance) at clock t: [st, err, ret].
DescSetSnapshot(st, f, inst, v, t) ==
    IF inst = NoInstance
    THEN [st |-> st, err |-> "RuntimeError", ret |-> None]
    ELSE SetSnapshotForInstance(st, f, inst, v, t)

\* A _snapshots that answers with the history of some instance when it
\* finds several.
DescSnapshotsOfAny(st, f) ==
    IF DOMAIN st.snaps[f] = {}
    THEN [err |-> NoErr, form |-> "empty", inst |-> NoInstance]
    ELSE [err |-> NoErr, form |-> "dict", inst |-> CHOOSE i \in DOMAIN st.snaps[f] : TRUE]

\* The property TemporalAttribute._snapshots: [err, form, inst].  With one
\* instance it returns the dictionary that instance's history is kept in.
DescSnapshots(st, f) ==
    IF Cardinality(DOMAIN st.snaps[f]) = 0
    THEN [err |-> NoErr, form |-> "empty", inst |-> NoInstance]
    ELSE IF Cardinality(DOMAIN st.snaps[f]) = 1
    THEN [err |-> NoErr, form |-> "dict", inst |-> CHOOSE i \in DOMAIN st.snaps[f] : TRUE]
    ELSE [err |-> "RuntimeError", form |-> "none", inst |-> NoInstance]

\* A set_snapshot that returns the value it committed.
HandleReturnsValue(ret, v) == v

\* TemporalValue.set_snapshot: "return self._descriptor._set_snapshot_for_
\* instance(...)", the result of the descriptor's method handed on.
HandleReturn(ret, v) == ret

NoHandle == [inst |-> "", field |-> "", value |-> None]

\* The last call the caller made: its result (form, value) and, for a commit,
\* the argument it passed.
NoCall == [op |-> "none", inst |-> "", field |-> "", form |-> "none",
           value |-> None, arg |-> None]

\* The references stored by the descriptors of store st or wrapped by handle
\* h: the objects the caller can reach (handle._value, a time-travel read,
\* the dictionaries themselves).
Reachable(st, h) ==
    {o \in 1..Len(st.objs) :
        \/ h.value = o
        \/ \E f \in Fields : \E i \in DOMAIN st.cur[f] : st.cur[f][i] = o
        \/ \E f \in Fields : \E i \in DOMAIN st.snaps[f] :
              \E k \in DOMAIN st.snaps[f][i] : st.snaps[f][i][k] = o}

Live == Reachable(Store, handle)

\* An object nothing refers to any more is freed by the interpreter.
Freed == [kind |-> "freed", cell |-> 0]

Sweep(st, h) ==
    LET live == Reachable(st, h)
        liveCells == {st.objs[o].cell : o \in live}
    IN [st EXCEPT
          !.objs = [o \in 1..Len(st.objs) |->
                      IF o \in live THEN st.objs[o] ELSE Freed],
          !.cells = [c \in 1..Len(st.cells) |->
                      IF c \in liveCells THEN st.cells[c] ELSE 0]]

\* The values the caller can pass: None, a string, an object it can reach, or
\* an object it constructs for the call.
Args == {None, New} \cup Atoms \cup Live

\* An argument as a value: a New object of the given kind is allocated.
Materialize(st, a, kind) ==
    IF a = New
    THEN [st |-> Alloc(st, kind, 0, 0), value |-> NewRef(st)]
    ELSE [st |-> st, value |-> a]

KindsFor(a) == IF a = New THEN Kinds ELSE {"deep"}

\* Threads of one process that commit to the same pair through handles they
\* hold; each passes an immutable value of its own choice.
Threads == 1..MaxThreads
ThreadPair == <<"c1", "credit_rating">>
ThreadValues == {-11, -12}

\* The class the threads enter their scopes on.
ThreadClass == TypeOf(ThreadPair[1])

\* A thread that has made no call yet.  "op" is the call it makes, "value"
\* the argument of _set_snapshot_for_instance, "copy" the local
\* snapshot_value, "ts" what datetime.datetime.now() returned to it, "seq"
\* the place of its insertion among the insertions; "timestamp" and
\* "original_timestamp" are the locals of its context() generator, "seen"
\* the local timestamp of the __get__ it runs inside its scope and "form"
\* what that read gave.
IdleThread == [pc |-> "idle", op |-> "none", value |-> None, copy |-> None,
               ts |-> None, seq |-> 0, timestamp |-> Absent,
               original_timestamp |-> Absent, seen |-> Absent, form |-> "none"]

\* ------------------------------------------------------------------- state
Init ==
    /\ now = 0
    /\ as_of_timestamp = [c \in Classes |-> IF c = "Anastasia" THEN None ELSE Absent]
    /\ ctx_stack = <<>>
    /\ exc = NoErr
    /\ instance_snapshots = [f \in Fields |-> EmptyDict]
    /\ instance_current_values = [f \in Fields |-> EmptyDict]
    /\ instance_value_set = [f \in Fields |-> EmptyDict]
    /\ objs = <<>>
    /\ cells = <<>>
    /\ handle = NoHandle
    /\ writes = 0
    /\ factory_calls = [p \in Pairs |-> 0]
    /\ last = NoCall
    /\ threads = [t \in Threads |-> IdleThread]

\* The store and the caller's handle are written back to the variables.
Commit(st, h) ==
    LET sw == Sweep(st, h)
    IN /\ instance_snapshots' = sw.snaps
       /\ instance_current_values' = sw.cur
       /\ instance_value_set' = sw.vset
       /\ objs' = sw.objs
       /\ cells' = sw.cells
       /\ handle' = h

\* A viewpoint that only the first instance of a class sees.
ViewpointOfFirst(i) ==
    IF i = "c2" THEN None ELSE GetAttrTs(as_of_timestamp, TypeOf(i))

\* The timestamp __get__ finds for an instance: that of its class.
Viewpoint(i) == GetAttrTs(as_of_timestamp, TypeOf(i))

\* ----------------------------------------------------------------- actions
\* The clock advances.
Tick ==
    /\ exc = NoErr
    /\ now' = now + 1
    /\ last' = NoCall
    /\ UNCHANGED <<as_of_timestamp, ctx_stack, exc, instance_snapshots,
                   instance_current_values, instance_value_set, objs, cells,
                   handle, writes, factory_calls,
                   threads>>

\* The caller mutates, in place, an object it can reach.
Mutate(o) ==
    /\ exc = NoErr
    /\ o \in Live
    /\ cells' = [cells EXCEPT ![objs[o].cell] = 1 - @]
    /\ objs' = objs
    /\ last' = NoCall
    /\ UNCHANGED <<now, as_of_timestamp, ctx_stack, exc, instance_snapshots,
                   instance_current_values, instance_value_set, handle,
                   writes, factory_calls,
                   threads>>

\* instance.field : TemporalAttribute.__get__
Get(i, f) ==
    /\ exc = NoErr
    /\ <<i, f>> \in Pairs
    /\ LET ts == Viewpoint(i)
           r == DescGet(Store, f, i, ts, now)
       IN /\ Len(r.st.objs) <= MaxObjs
          /\ Commit(r.st, IF r.form = "handle"
                           THEN [inst |-> i, field |-> f, value |-> r.value]
                           ELSE handle)
          /\ exc' = r.err
          /\ writes' = IF r.called THEN writes + 1 ELSE writes
          /\ factory_calls' = IF r.called
                              THEN [factory_calls EXCEPT ![<<i, f>>] = @ + 1]
                              ELSE factory_calls
          /\ last' = [op |-> "get", inst |-> i, field |-> f, form |-> r.form,
                      value |-> r.value, arg |-> None]
    /\ UNCHANGED <<now, as_of_timestamp, ctx_stack, threads>>

\* instance.field = a : TemporalAttribute.__set__
Set(i, f, a, kind) ==
    /\ exc = NoErr
    /\ <<i, f>> \in Pairs
    /\ a \in Args
    /\ LET m == Materialize(Store, a, kind)
       IN /\ Len(m.st.objs) <= MaxObjs
          /\ Commit(DescSet(m.st, f, i, m.value), handle)
          /\ last' = [NoCall EXCEPT !.op = "set", !.inst = i, !.field = f,
                                    !.value = m.value]
    /\ writes' = writes + 1
    /\ UNCHANGED <<now, as_of_timestamp, ctx_stack, exc, factory_calls, threads>>

\* handle.set_snapshot(a) : TemporalValue.set_snapshot
HandleSetSnapshot(a, kind) ==
    /\ exc = NoErr
    /\ handle # NoHandle
    /\ a \in Args
    /\ LET m == Materialize(Store, a, kind)
           v == SnapshotValue(handle, m.value)
           r == SetSnapshotForInstance(m.st, handle.field, handle.inst, v, now)
       IN /\ Len(r.st.objs) <= MaxObjs
          /\ Commit(r.st, handle)
          /\ exc' = r.err
          /\ last' = [op |-> "commit", inst |-> handle.inst,
                      field |-> handle.field, form |-> "none",
                      value |-> HandleReturn(r.ret, v),
                      arg |-> m.value]
    /\ writes' = writes + 1
    /\ UNCHANGED <<now, as_of_timestamp, ctx_stack, factory_calls, threads>>

\* str(handle), handle == x, handle + x, handle[k], len(handle), ... : the
\* operations TemporalValue forwards to the value it wraps.
HandleValueOp ==
    /\ exc = NoErr
    /\ handle # NoHandle
    /\ last' = [NoCall EXCEPT !.op = "value_op", !.inst = handle.inst,
                              !.field = handle.field, !.value = handle.value]
    /\ UNCHANGED <<now, as_of_timestamp, ctx_stack, exc, instance_snapshots,
                   instance_current_values, instance_value_set, objs, cells,
                   handle, writes, factory_calls,
                   threads>>

\* type(instance).field.set_snapshot(a, inst) : TemporalAttribute.set_snapshot
FieldSetSnapshot(f, a, inst, kind) ==
    /\ exc = NoErr
    /\ inst # NoInstance => <<inst, f>> \in Pairs
    /\ a \in Args
    /\ LET m == Materialize(Store, a, kind)
           r == DescSetSnapshot(m.st, f, inst, m.value, now)
       IN /\ Len(r.st.objs) <= MaxObjs
          /\ Commit(r.st, handle)
          /\ exc' = r.err
          /\ last' = [op |-> "field_commit", inst |-> inst, field |-> f,
                      form |-> "none", value |-> r.ret, arg |-> m.value]
    /\ writes' = IF inst = NoInstance THEN writes ELSE writes + 1
    /\ UNCHANGED <<now, as_of_timestamp, ctx_stack, factory_calls, threads>>

\* type(instance).field : TemporalAttribute.__get__ with no instance
ClassGet(f) ==
    /\ exc = NoErr
    /\ f \in Fields
    /\ LET r == DescGet(Store, f, NoInstance, ClsAttr(as_of_timestamp, OwnerOf(f)), now)
       IN /\ Len(r.st.objs) <= MaxObjs
          /\ Commit(r.st, handle)
          /\ exc' = r.err
          /\ writes' = IF r.called THEN writes + 1 ELSE writes
          /\ last' = [op |-> "class_get", inst |-> NoInstance, field |-> f,
                      form |-> r.form, value |-> r.value, arg |-> None]
    /\ UNCHANGED <<now, as_of_timestamp, ctx_stack, factory_calls, threads>>

\* type(instance).field._snapshots : the property TemporalAttribute._snapshots
FieldSnapshots(f) ==
    /\ exc = NoErr
    /\ f \in Fields
    /\ LET r == DescSnapshots(Store, f)
       IN /\ exc' = r.err
          /\ last' = [op |-> "snapshots", inst |-> r.inst, field |-> f,
                      form |-> r.form, value |-> None, arg |-> None]
    /\ UNCHANGED <<now, as_of_timestamp, ctx_stack, instance_snapshots,
                   instance_current_values, instance_value_set, objs, cells,
                   handle, writes, factory_calls, threads>>

\* with cls.context(ts): the generator runs up to its yield
Enter(c, ts) ==
    /\ exc = NoErr
    /\ ctx_stack' = Append(ctx_stack,
                           [cls |-> c,
                            original_timestamp |-> ClsAttr(as_of_timestamp, c),
                            observed |-> GetAttrTs(as_of_timestamp, c),
                            timestamp |-> ts])
    /\ as_of_timestamp' = SetTimestamp(as_of_timestamp, c, ts)
    /\ last' = NoCall
    /\ UNCHANGED <<now, exc, instance_snapshots, instance_current_values,
                   instance_value_set, objs, cells, handle, writes,
                   factory_calls,
                   threads>>

\* The with block is left, normally or by the exception in flight: the
\* generator's finally clause runs.
Exit ==
    /\ ctx_stack # <<>>
    /\ as_of_timestamp' = Restore(as_of_timestamp, ctx_stack[Len(ctx_stack)], exc)
    /\ last' = [NoCall EXCEPT !.op = "exit"]
    /\ ctx_stack' = SubSeq(ctx_stack, 1, Len(ctx_stack) - 1)
    /\ UNCHANGED <<now, exc, instance_snapshots, instance_current_values,
                   instance_value_set, objs, cells, handle, writes,
                   factory_calls,
                   threads>>

\* An except clause of the caller handles the exception in flight.
Catch ==
    /\ exc # NoErr
    /\ exc' = NoErr
    /\ last' = NoCall
    /\ UNCHANGED <<now, as_of_timestamp, ctx_stack, instance_snapshots,
                   instance_current_values, instance_value_set, objs, cells,
                   handle, writes, factory_calls,
                   threads>>

\* A commit run by thread t, one statement of _set_snapshot_for_instance at
\* a time; the interpreter may switch threads between any two of them.
ThreadStep(t, pc) ==
    /\ exc = NoErr
    /\ threads[t].pc = pc
    /\ UNCHANGED <<now, as_of_timestamp, ctx_stack, exc, objs, cells, handle,
                   writes, factory_calls, last>>

\* handle.set_snapshot(v): the call reaches _set_snapshot_for_instance.
TCall(t, v) ==
    /\ ThreadStep(t, "idle")
    /\ threads' = [threads EXCEPT ![t].pc = "init", ![t].op = "commit",
                                  ![t].value = v]
    /\ UNCHANGED <<instance_snapshots, instance_current_values, instance_value_set>>

\* The three "if instance not in ..." statements.
TInit(t) ==
    /\ ThreadStep(t, "init")
    /\ LET st == InitInstanceData(Store, ThreadPair[2], ThreadPair[1])
       IN /\ instance_snapshots' = st.snaps
          /\ instance_current_values' = st.cur
          /\ instance_value_set' = st.vset
    /\ threads' = [threads EXCEPT ![t].pc = "set_value"]

\* self._instance_current_values[instance] = value
TSetValue(t) ==
    /\ ThreadStep(t, "set_value")
    /\ instance_current_values' =
          [instance_current_values EXCEPT ![ThreadPair[2]][ThreadPair[1]] =
                                             threads[t].value]
    /\ threads' = [threads EXCEPT ![t].pc = "set_flag"]
    /\ UNCHANGED <<instance_snapshots, instance_value_set>>

\* self._instance_value_set[instance] = True
TSetFlag(t) ==
    /\ ThreadStep(t, "set_flag")
    /\ instance_value_set' =
          [instance_value_set EXCEPT ![ThreadPair[2]][ThreadPair[1]] = TRUE]
    /\ threads' = [threads EXCEPT ![t].pc = "copy"]
    /\ UNCHANGED <<instance_snapshots, instance_current_values>>

\* snapshot_value = copy.deepcopy(value)
TCopy(t) ==
    /\ ThreadStep(t, "copy")
    /\ threads' = [threads EXCEPT ![t].pc = "clock",
                                  ![t].copy = CopyForSnapshot(Store, threads[t].value).value]
    /\ UNCHANGED <<instance_snapshots, instance_current_values, instance_value_set>>

\* datetime.datetime.now(), evaluated before the item is stored.
TReadClock(t) ==
    /\ ThreadStep(t, "clock")
    /\ threads' = [threads EXCEPT ![t].pc = "insert", ![t].ts = now]
    /\ UNCHANGED <<instance_snapshots, instance_current_values, instance_value_set>>

\* self._instance_snapshots[instance][...] = snapshot_value
TInsert(t) ==
    /\ ThreadStep(t, "insert")
    /\ instance_snapshots' =
          [instance_snapshots EXCEPT ![ThreadPair[2]][ThreadPair[1]] =
              InsertSnapshot(@, threads[t].ts, threads[t].copy)]
    /\ threads' = [threads EXCEPT
                      ![t].pc = IF threads[t].op = "read" THEN "wrap" ELSE "done",
                      ![t].seq = 1 + SetMax({threads[u].seq : u \in Threads})]
    /\ UNCHANGED <<instance_current_values, instance_value_set>>

\* A current-mode read of the pair run by thread t, one step of __get__ at
\* a time.  The read begins: instance.field calls __get__.
TRead(t) ==
    /\ ThreadStep(t, "idle")
    /\ threads' = [threads EXCEPT ![t].pc = "get_init", ![t].op = "read"]
    /\ UNCHANGED <<instance_snapshots, instance_current_values, instance_value_set>>

\* The three "if instance not in ..." statements of __get__.
TGetInit(t) ==
    /\ ThreadStep(t, "get_init")
    /\ LET st == InitInstanceData(Store, ThreadPair[2], ThreadPair[1])
       IN /\ instance_snapshots' = st.snaps
          /\ instance_current_values' = st.cur
          /\ instance_value_set' = st.vset
    /\ threads' = [threads EXCEPT ![t].pc = "get_check"]

\* "if timestamp is not None ... else: if not self._instance_value_set[instance]"
\* with no viewpoint in force.
TGetCheck(t) ==
    /\ ThreadStep(t, "get_check")
    /\ Viewpoint(ThreadPair[1]) = None
    /\ threads' = [threads EXCEPT
                      ![t].pc = IF instance_value_set[ThreadPair[2]][ThreadPair[1]]
                                THEN "wrap" ELSE "factory"]
    /\ UNCHANGED <<instance_snapshots, instance_current_values, instance_value_set>>

\* initial_value = self._initial_value_func(instance), handed on to
\* _set_snapshot_for_instance.
TFactory(t) ==
    /\ exc = NoErr
    /\ threads[t].pc = "factory"
    /\ factory_calls' = [factory_calls EXCEPT ![ThreadPair] = @ + 1]
    /\ threads' = [threads EXCEPT
                      ![t].pc = "init",
                      ![t].value = InitialValue(Store, ThreadPair[2]).value]
    /\ UNCHANGED <<now, as_of_timestamp, ctx_stack, exc, instance_snapshots,
                   instance_current_values, instance_value_set, objs, cells,
                   handle, writes, last>>

\* return TemporalValue(self._instance_current_values[instance], self, instance)
TWrap(t) ==
    /\ ThreadStep(t, "wrap")
    /\ threads' = [threads EXCEPT ![t].pc = "done"]
    /\ UNCHANGED <<instance_snapshots, instance_current_values, instance_value_set>>

\* with ThreadClass.context(ts) run by thread t: the generator starts and
\* executes "original_timestamp = cls.as_of_timestamp".
TEnter(t, ts) ==
    /\ ThreadStep(t, "idle")
    /\ threads' = [threads EXCEPT
                      ![t].pc = "saved", ![t].op = "scope", ![t].timestamp = ts,
                      ![t].original_timestamp = ClsAttr(as_of_timestamp, ThreadClass)]
    /\ UNCHANGED <<instance_snapshots, instance_current_values, instance_value_set>>

\* "cls.as_of_timestamp = timestamp", then the yield: the with block begins.
TSetTimestamp(t) ==
    /\ exc = NoErr
    /\ threads[t].pc = "saved"
    /\ as_of_timestamp' = SetTimestamp(as_of_timestamp, ThreadClass, threads[t].timestamp)
    /\ threads' = [threads EXCEPT ![t].pc = "in_scope"]
    /\ UNCHANGED <<now, ctx_stack, exc, instance_snapshots, instance_current_values,
                   instance_value_set, objs, cells, handle, writes,
                   factory_calls, last>>

\* instance.field inside the with block of thread t: __get__ looks the
\* viewpoint up on the class and resolves the read against it.
TScopedGet(t) ==
    /\ exc = NoErr
    /\ threads[t].pc = "in_scope"
    /\ LET i == ThreadPair[1]
           f == ThreadPair[2]
           ts == Viewpoint(i)
           r == DescGet(Store, f, i, ts, now)
       IN /\ Commit(r.st, handle)
          /\ writes' = IF r.called THEN writes + 1 ELSE writes
          /\ factory_calls' = IF r.called
                              THEN [factory_calls EXCEPT ![<<i, f>>] = @ + 1]
                              ELSE factory_calls
          /\ threads' = [threads EXCEPT
                            ![t].pc = "scoped_read",
                            ![t].seen = ts,
                            ![t].form = IF r.err # NoErr THEN "error" ELSE r.form]
    /\ UNCHANGED <<now, as_of_timestamp, ctx_stack, exc, last>>

\* The with block of thread t is left, by the end of the block or by the
\* error of its read: "cls.as_of_timestamp = original_timestamp".
TExit(t) ==
    /\ exc = NoErr
    /\ threads[t].pc \in {"in_scope", "scoped_read"}
    /\ as_of_timestamp' =
          Restore(as_of_timestamp,
                  [cls |-> ThreadClass,
                   original_timestamp |-> threads[t].original_timestamp],
                  IF threads[t].form = "error" THEN "ValueError" ELSE NoErr)
    /\ threads' = [threads EXCEPT ![t].pc = "done"]
    /\ UNCHANGED <<now, ctx_stack, exc, instance_snapshots, instance_current_values,
                   instance_value_set, objs, cells, handle, writes,
                   factory_calls, last>>

\* ------------------------------------------------------------ specifications
\* instance.field would run the factory: a current-mode read of a pair whose
\* value has not been set.
WouldLoad(i, f) ==
    /\ Viewpoint(i) = None
    /\ ~(i \in DOMAIN instance_value_set[f] /\ instance_value_set[f][i])

\* A read within a budget of max writes.
GetWithin(i, f, max) ==
    /\ WouldLoad(i, f) => writes < max
    /\ Get(i, f)

\* Spec: the history of one (instance, field) with values of every kind,
\* read through one scope at a time on the instance's class.
HistPairs == {<<"c1", "data">>}

Next ==
    \/ now < MaxTime /\ Tick
    \/ \E o \in Refs : Mutate(o)
    \/ \E p \in HistPairs : GetWithin(p[1], p[2], MaxWrites)
    \/ \E p \in HistPairs, a \in Args : \E k \in KindsFor(a) :
          writes < MaxWrites /\ Set(p[1], p[2], a, k)
    \/ \E a \in Args : \E k \in KindsFor(a) :
          writes < MaxWrites /\ HandleSetSnapshot(a, k)
    \/ \E ts \in Time \cup {None} : ctx_stack = <<>> /\ Enter("Company", ts)
    \/ Exit
    \/ Catch

Spec == Init /\ [][Next]_vars

\* SpecScope: every class, nested scopes, immutable values, the clock at 0.
\* MaxScopeWrites bounds the reads and assignments that write; a commit
\* through the handle may follow them.
ScopePairs == {<<"c1", "credit_rating">>, <<"c2", "credit_rating">>,
               <<"p1", "age">>}
ScopeArgs == {None} \cup Atoms
ScopeTime == 0..MaxScopeTime

NextScope ==
    \/ \E p \in ScopePairs : GetWithin(p[1], p[2], MaxScopeWrites)
    \/ \E p \in ScopePairs, a \in ScopeArgs :
          writes < MaxScopeWrites /\ Set(p[1], p[2], a, "deep")
    \/ \E a \in ScopeArgs :
          writes <= MaxScopeWrites /\ HandleSetSnapshot(a, "deep")
    \/ \E c \in Classes, ts \in ScopeTime \cup {None} :
          Len(ctx_stack) < MaxDepth /\ Enter(c, ts)
    \/ Exit
    \/ Catch

SpecScope == Init /\ [][NextScope]_vars

\* SpecPairs: every (instance, field), in current mode.
PairArgs == {None, New} \cup Atoms

NextPairs ==
    \/ now < MaxScopeTime /\ Tick
    \/ \E p \in Pairs : GetWithin(p[1], p[2], MaxPairWrites)
    \/ \E p \in Pairs, a \in PairArgs :
          writes < MaxPairWrites /\ Set(p[1], p[2], a, "deep")
    \/ \E a \in PairArgs :
          writes < MaxPairWrites /\ HandleSetSnapshot(a, "deep")

SpecPairs == Init /\ [][NextPairs]_vars

\* SpecField: the descriptor's own set_snapshot, with and without an
\* instance, on two instances of one class.
FieldPairs == {<<"c1", "credit_rating">>, <<"c2", "credit_rating">>}
FieldTime == 0..MaxFieldTime

NextField ==
    \/ now < MaxFieldTime /\ Tick
    \/ \E p \in FieldPairs : GetWithin(p[1], p[2], MaxFieldWrites)
    \/ \E a \in ScopeArgs :
          writes < MaxFieldWrites /\ HandleSetSnapshot(a, "deep")
    \/ \E p \in FieldPairs, a \in ScopeArgs :
          writes < MaxFieldWrites /\ FieldSetSnapshot(p[2], a, p[1], "deep")
    \/ \E a \in ScopeArgs : FieldSetSnapshot("credit_rating", a, NoInstance, "deep")
    \/ HandleValueOp
    \/ \E p \in FieldPairs, a \in ScopeArgs :
          writes < MaxFieldWrites /\ Set(p[1], p[2], a, "deep")
    \/ ClassGet("credit_rating")
    \/ FieldSnapshots("credit_rating")
    \/ \E ts \in FieldTime \cup {None} : ctx_stack = <<>> /\ Enter("Company", ts)
    \/ Exit
    \/ Catch

SpecField == Init /\ [][NextField]_vars

\* SpecThreads: concurrent commits to and reads of one pair, one call per
\* thread.
NextThreads ==
    \/ now < MaxThreadTime /\ Tick
    \/ \E t \in Threads, v \in ThreadValues : TCall(t, v)
    \/ \E t \in Threads : TInit(t)
    \/ \E t \in Threads : TSetValue(t)
    \/ \E t \in Threads : TSetFlag(t)
    \/ \E t \in Threads : TCopy(t)
    \/ \E t \in Threads : TReadClock(t)
    \/ \E t \in Threads : TInsert(t)
    \/ \E t \in Threads : TRead(t)
    \/ \E t \in Threads : TGetInit(t)
    \/ \E t \in Threads : TGetCheck(t)
    \/ \E t \in Threads : TFactory(t)
    \/ \E t \in Threads : TWrap(t)

SpecThreads == Init /\ [][NextThreads]_vars

\* SpecThreadScopes: one scope per thread on one class, each with a read
\* inside; before the threads start the caller may read the pair, which
\* initialises it.
ThreadScopeTime == 0..MaxThreadTime

NextThreadScopes ==
    \/ now < MaxThreadTime /\ Tick
    \/ /\ \A t \in Threads : threads[t].pc = "idle"
       /\ GetWithin(ThreadPair[1], ThreadPair[2], MaxScopeWrites)
    \/ \E t \in Threads, ts \in ThreadScopeTime : TEnter(t, ts)
    \/ \E t \in Threads : TSetTimestamp(t)
    \/ \E t \in Threads : TScopedGet(t)
    \/ \E t \in Threads : TExit(t)

SpecThreadScopes == Init /\ [][NextThreadScopes]_vars

\* ------------------------------------------------------------------ claims
\* The history, current value and has-been-set flag of a pair, a pair without
\* per-instance data counting as empty, None and False.
SnapsIn(snaps, i, f) == IF i \in DOMAIN snaps[f] THEN snaps[f][i] ELSE EmptyDict
CurIn(cur, i, f) == IF i \in DOMAIN cur[f] THEN cur[f][i] ELSE None
SetIn(vset, i, f) == IF i \in DOMAIN vset[f] THEN vset[f][i] ELSE FALSE

\* The timestamp a read of history H at viewpoint t resolves to: the key at
\* or before t with no other key between it and t; None when there is none.
KeyAsOf(H, t) ==
    IF \E k \in DOMAIN H : k <= t
    THEN CHOOSE k \in DOMAIN H : k <= t /\ \A j \in DOMAIN H : j <= t => j <= k
    ELSE None

\* The entry a read at viewpoint t resolves to, "error" when there is none.
EntryAsOf(H, t) ==
    IF KeyAsOf(H, t) = None THEN <<"error", None>> ELSE <<"value", H[KeyAsOf(H, t)]>>

\* The same with the content of the entry, as the caller sees it.
SeenAsOf(H, o, c, t) ==
    IF KeyAsOf(H, t) = None THEN <<"error", None>>
    ELSE <<"value", Content(o, c, H[KeyAsOf(H, t)])>>

LastSnaps == SnapsIn(instance_snapshots, last.inst, last.field)
LastCur == CurIn(instance_current_values, last.inst, last.field)

\* C1: a read under viewpoint t returns the snapshot stored under the greatest
\* timestamp ti <= t (so vi for ti <= t < t(i+1), vn for t >= tn, the snapshot
\* at ti for t = ti) and fails with the no-snapshot error when every
\* timestamp of the history is after t.
C1_AsOfResolution ==
    (last.op = "get" /\ Viewpoint(last.inst) # None) =>
        LET t == Viewpoint(last.inst)
            H == LastSnaps
        IN IF \A k \in DOMAIN H : t < k
           THEN exc = "ValueError" /\ last.form = "none"
           ELSE /\ exc = NoErr
                /\ last.form = "raw"
                /\ \E k \in DOMAIN H :
                      /\ k <= t
                      /\ \A j \in DOMAIN H : (k < j) => (t < j)
                      /\ last.value = H[k]

\* A read strictly between two snapshots returned the earlier one.
C1_Witness ==
    /\ last.op = "get"
    /\ last.form = "raw"
    /\ \E k1, k2 \in DOMAIN LastSnaps :
          /\ k1 <= Viewpoint(last.inst)
          /\ Viewpoint(last.inst) < k2
          /\ last.value = LastSnaps[k1]
          /\ LastSnaps[k1] # LastSnaps[k2]

\* C2: when a scope is left, normally or by an exception, the viewpoint seen
\* on the type it was entered on is the one seen there before it was entered.
C2_ScopedRestore ==
    [][Len(ctx_stack') < Len(ctx_stack) =>
          LET top == ctx_stack[Len(ctx_stack)]
          IN /\ GetAttrTs(as_of_timestamp', top.cls) = top.observed
             /\ ctx_stack' = SubSeq(ctx_stack, 1, Len(ctx_stack) - 1)]_vars

\* An inner scope left by the exception of a failed read gave the outer
\* scope its timestamp back.
C2_Witness ==
    /\ last.op = "exit"
    /\ exc = "ValueError"
    /\ Len(ctx_stack) = 1
    /\ ctx_stack[1].observed = None
    /\ ctx_stack[1].cls = "Company"
    /\ as_of_timestamp["Company"] \in ScopeTime

\* C3: the factory runs at most once for a pair; the read that finds the
\* value unset in current mode runs it and creates exactly one snapshot,
\* holding the factory's value; every other read creates none.
C3_LazyInitOnce ==
    [][last'.op = "get" =>
          LET i == last'.inst
              f == last'.field
              before == SnapsIn(instance_snapshots, i, f)
              after == SnapsIn(instance_snapshots', i, f)
              calls == factory_calls'[<<i, f>>] - factory_calls[<<i, f>>]
          IN /\ factory_calls'[<<i, f>>] <= 1
             /\ IF Viewpoint(i) = None /\ ~SetIn(instance_value_set, i, f)
                THEN /\ calls = 1
                     /\ before = EmptyDict
                     /\ DOMAIN after = {now}
                     /\ Content(objs', cells', after[now]) =
                           Content(objs', cells', last'.value)
                     /\ last'.form = "handle"
                ELSE calls = 0 /\ after = before]_vars

\* A second current-mode read after the lazy initialisation.
C3_Witness ==
    /\ last.op = "get"
    /\ last.form = "handle"
    /\ factory_calls[<<last.inst, last.field>>] = 1
    /\ Cardinality(DOMAIN LastSnaps) = 1
    /\ now > 0
    /\ 0 \in DOMAIN LastSnaps

\* C4: an in-place mutation of the live current value changes no time-travel
\* read, and a mutation of a stored snapshot changes neither the current
\* value nor another snapshot.  Stated for the values copy.deepcopy copies.
C4_SnapshotIsolation ==
    [][\A o \in Refs : \A p \in HistPairs :
          (Mutate(o) /\ \A r \in Live : objs[r].kind = "deep") =>
             LET H == SnapsIn(instance_snapshots, p[1], p[2])
                 cur == CurIn(instance_current_values, p[1], p[2])
             IN /\ (cur = o) =>
                      \A t \in Time : SeenAsOf(H, objs', cells', t) =
                                      SeenAsOf(H, objs, cells, t)
                /\ \A k \in DOMAIN H : (H[k] = o) =>
                      /\ Content(objs', cells', cur) = Content(objs, cells, cur)
                      /\ \A j \in DOMAIN H \ {k} :
                            Content(objs', cells', H[j]) = Content(objs, cells, H[j])
      ]_vars

\* C5: a time-travel read fails with the no-snapshot error exactly when no
\* snapshot of the pair is at or before the viewpoint; the failed read
\* changes no history, current value, flag or viewpoint; and the scopes the
\* error leaves restore the viewpoint seen before they were entered.
PairsView(snaps, cur, vset) ==
    [p \in Pairs |-> <<SnapsIn(snaps, p[1], p[2]), CurIn(cur, p[1], p[2]),
                      SetIn(vset, p[1], p[2])>>]

C5_NoSnapshotError ==
    [][/\ (last'.op = "get" /\ Viewpoint(last'.inst) # None) =>
             LET H == SnapsIn(instance_snapshots, last'.inst, last'.field)
             IN (exc' = "ValueError") <=>
                   (\A k \in DOMAIN H : Viewpoint(last'.inst) < k)
       /\ (last'.op = "get" /\ exc' = "ValueError") =>
             /\ Viewpoint(last'.inst) # None
             /\ PairsView(instance_snapshots', instance_current_values',
                          instance_value_set') =
                PairsView(instance_snapshots, instance_current_values,
                          instance_value_set)
             /\ as_of_timestamp' = as_of_timestamp
             /\ ctx_stack' = ctx_stack
       /\ (exc = "ValueError" /\ Len(ctx_stack') < Len(ctx_stack)) =>
             /\ GetAttrTs(as_of_timestamp', ctx_stack[Len(ctx_stack)].cls) =
                   ctx_stack[Len(ctx_stack)].observed
             /\ exc' = exc
      ]_vars

\* A read failed inside a scope whose viewpoint is before every snapshot of
\* a pair that has a current value.
C5_Witness ==
    /\ last.op = "get"
    /\ exc = "ValueError"
    /\ ctx_stack # <<>>
    /\ LastSnaps # EmptyDict
    /\ LastCur # None

\* C6: a plain assignment makes the assigned value the current value and sets
\* the flag, changes no snapshot entry, so that every time-travel read gives
\* what it gave before, and the next current-mode read yields the value.
C6_PlainAssignment ==
    [][last'.op = "set" =>
          LET i == last'.inst
              f == last'.field
              before == SnapsIn(instance_snapshots, i, f)
              after == SnapsIn(instance_snapshots', i, f)
              read == DescGet(Store', f, i, None, now')
          IN /\ CurIn(instance_current_values', i, f) = last'.value
             /\ SetIn(instance_value_set', i, f)
             /\ after = before
             /\ \A t \in Time :
                   /\ EntryAsOf(after, t) = EntryAsOf(before, t)
                   /\ SeenAsOf(after, objs', cells', t) =
                         SeenAsOf(before, objs, cells, t)
             /\ read.form = "handle"
             /\ read.value = last'.value
             /\ ~read.called]_vars

\* An assignment inside a scope, to a pair that has a history.
C6_Witness ==
    /\ last.op = "set"
    /\ Viewpoint(last.inst) # None
    /\ LastSnaps # EmptyDict
    /\ \A k \in DOMAIN LastSnaps : LastSnaps[k] # LastCur

\* C7: a read, an assignment or a commit on one pair leaves the per-instance
\* data of every other pair as it was: its entries in the three dictionaries
\* and the content of the values they hold.
PairData(snaps, cur, vset, o, c, p) ==
    LET i == p[1]
        f == p[2]
    IN IF i \notin DOMAIN snaps[f] THEN <<"no data">>
       ELSE <<snaps[f][i], cur[f][i], vset[f][i],
              Content(o, c, cur[f][i]),
              [k \in DOMAIN snaps[f][i] |-> Content(o, c, snaps[f][i][k])]>>

C7_Independence ==
    [][last'.op \in {"get", "set", "commit"} =>
          \A p \in Pairs \ {<<last'.inst, last'.field>>} :
             PairData(instance_snapshots', instance_current_values',
                      instance_value_set', objs', cells', p) =
             PairData(instance_snapshots, instance_current_values,
                      instance_value_set, objs, cells, p)]_vars

\* A commit on one instance while another instance has a history under the
\* same descriptor.
C7_Witness ==
    /\ last.op = "commit"
    /\ last.inst = "c1"
    /\ last.field = "credit_rating"
    /\ Cardinality(DOMAIN SnapsIn(instance_snapshots, "c1", "credit_rating")) = 2
    /\ SnapsIn(instance_snapshots, "c2", "credit_rating") # EmptyDict

\* A step that stores a snapshot for the pair <<i, f>>: a commit or a lazy
\* initialisation that ends without an error.
Stores(i, f) ==
    /\ exc' = NoErr
    /\ last'.inst = i
    /\ last'.field = f
    /\ \/ last'.op = "commit"
       \/ last'.op = "get" /\ factory_calls'[<<i, f>>] # factory_calls[<<i, f>>]

\* C8: once a snapshot of v is committed, the current value is v and a read
\* at any viewpoint from the commit's timestamp on yields v; the entry such a
\* read resolves to stays the same until the next snapshot is committed.
C8_CommitVisible ==
    [][\A p \in HistPairs :
          LET i == p[1]
              f == p[2]
              before == SnapsIn(instance_snapshots, i, f)
              after == SnapsIn(instance_snapshots', i, f)
              v == CurIn(instance_current_values', i, f)
              held == IF handle.value = None THEN None
                      ELSE Content(objs, cells, handle.value)
          IN IF Stores(i, f)
             THEN /\ last'.op = "commit" =>
                        /\ last'.arg # None => v = last'.arg
                        /\ last'.arg = None =>
                              /\ v = handle.value
                              /\ Content(objs', cells', v) = held
                  /\ DescGet(Store', f, i, None, now').value = v
                  /\ \A t \in Time : t >= now =>
                        SeenAsOf(after, objs', cells', t) =
                           <<"value", Content(objs', cells', v)>>
             ELSE \A t \in Time : EntryAsOf(after, t) = EntryAsOf(before, t)
      ]_vars

\* A later viewpoint reads the committed value after an assignment replaced
\* the current one.
C8_Witness ==
    /\ last.op = "get"
    /\ last.form = "raw"
    /\ Viewpoint(last.inst) > 0
    /\ DOMAIN LastSnaps = {0}
    /\ LastCur # None
    /\ Content(objs, cells, LastCur) # Content(objs, cells, last.value)

\* C9: every commit that ends without an error adds exactly one entry to the
\* history of its pair, whatever the clock returns.
C9_OneEntryPerCommit ==
    [][\A p \in HistPairs :
          Stores(p[1], p[2]) =>
             Cardinality(DOMAIN SnapsIn(instance_snapshots', p[1], p[2])) =
             Cardinality(DOMAIN SnapsIn(instance_snapshots, p[1], p[2])) + 1
      ]_vars

\* C10: a snapshot committed under a timestamp that already holds one is the
\* one a read resolving to that timestamp returns.
C10_TieBreak ==
    [][\A p \in HistPairs :
          LET before == SnapsIn(instance_snapshots, p[1], p[2])
              after == SnapsIn(instance_snapshots', p[1], p[2])
              v == CurIn(instance_current_values', p[1], p[2])
          IN (Stores(p[1], p[2]) /\ now \in DOMAIN before) =>
                \A t \in Time : KeyAsOf(after, t) = now =>
                   SeenAsOf(after, objs', cells', t) =
                      <<"value", Content(objs', cells', v)>>
      ]_vars

\* A commit under the timestamp of the lazy initialisation, with another
\* value.
C10_Witness ==
    /\ last.op = "commit"
    /\ exc = NoErr
    /\ now = 0
    /\ factory_calls[<<last.inst, last.field>>] = 1
    /\ DOMAIN LastSnaps = {0}
    /\ LastCur \in Atoms
    /\ LastSnaps[0] = LastCur

\* The scope that governs class c: the innermost active scope entered on c.
ScopesOn(c) == {k \in 1..Len(ctx_stack) : ctx_stack[k].cls = c}
InnermostOn(c) == ctx_stack[CHOOSE k \in ScopesOn(c) : \A j \in ScopesOn(c) : j <= k]

\* C11: the viewpoint alone decides the form of a read's result: with no
\* viewpoint the read returns a handle bound to the pair and wrapping its
\* current value, initialised first when unset; with a viewpoint it returns
\* the stored value itself, gives the caller no handle, and never runs the
\* factory.
C11_FormByViewpoint ==
    [][last'.op = "get" =>
          LET i == last'.inst
              f == last'.field
          IN IF Viewpoint(i) = None
             THEN /\ last'.form = "handle"
                  /\ handle' = [inst |-> i, field |-> f,
                                value |-> CurIn(instance_current_values', i, f)]
                  /\ last'.value = handle'.value
                  /\ SetIn(instance_value_set', i, f)
                  /\ SetIn(instance_value_set, i, f) =>
                        handle'.value = CurIn(instance_current_values, i, f)
             ELSE /\ last'.form \in {"raw", "none"}
                  /\ last'.form = "raw" =>
                        \E k \in DOMAIN SnapsIn(instance_snapshots, i, f) :
                           last'.value = SnapsIn(instance_snapshots, i, f)[k]
                  /\ handle' = handle
                  /\ factory_calls' = factory_calls
                  /\ PairsView(instance_snapshots', instance_current_values',
                               instance_value_set') =
                     PairsView(instance_snapshots, instance_current_values,
                               instance_value_set)]_vars

\* A read under a viewpoint returned the stored value while the current
\* value of the pair is another one and the handle of an earlier read is
\* still the caller's.
C11_Witness ==
    /\ last.op = "get"
    /\ last.form = "raw"
    /\ LastCur # last.value
    /\ handle.inst = last.inst
    /\ handle.field = last.field
    /\ handle.value # LastCur

\* What a read of the pair resolved as of t gives: the error, or the entry.
ResolvedAsOf(i, f, t) ==
    LET e == EntryAsOf(SnapsIn(instance_snapshots, i, f), t)
    IN IF e[1] = "error"
       THEN exc' = "ValueError" /\ last'.form = "none"
       ELSE exc' = NoErr /\ last'.form = "raw" /\ last'.value = e[2]

\* C12: while a scope with a timestamp entered on a class is the one that
\* governs it, a read on any instance of that class is resolved as of that
\* timestamp.
C12_SharedViewpoint ==
    [][(/\ last'.op = "get"
        /\ ScopesOn(TypeOf(last'.inst)) # {}
        /\ InnermostOn(TypeOf(last'.inst)).timestamp # None) =>
          ResolvedAsOf(last'.inst, last'.field,
                       InnermostOn(TypeOf(last'.inst)).timestamp)]_vars

\* A read on the second Company instance returned its snapshot inside a
\* scope entered on Company, which the first instance's read fails in.
C12_Witness ==
    /\ last.op = "get"
    /\ last.inst = "c2"
    /\ last.form = "raw"
    /\ ScopesOn("Company") # {}
    /\ InnermostOn("Company").timestamp = 0
    /\ SnapsIn(instance_snapshots, "c1", "credit_rating") = EmptyDict

\* C13: while the only active scope is one entered on Company with a
\* timestamp, a read on an instance of Person, the other class derived from
\* the common base, is resolved as of that timestamp.
C13_CrossClassViewpoint ==
    [][(/\ last'.op = "get"
        /\ TypeOf(last'.inst) = "Person"
        /\ Len(ctx_stack) = 1
        /\ ctx_stack[1].cls = "Company"
        /\ ctx_stack[1].timestamp # None) =>
          ResolvedAsOf(last'.inst, last'.field, ctx_stack[1].timestamp)]_vars

\* C14: when no scope is active, every class observes no viewpoint.
C14_NoScopeNoViewpoint ==
    ctx_stack = <<>> => \A c \in Classes : GetAttrTs(as_of_timestamp, c) = None

\* C15: while the scope that governs a class was entered with None, a read on
\* an instance of the class is a current-mode read giving a handle over the
\* current value, also when that scope is nested in one with a timestamp; and
\* when such an inner scope exits, the timestamp of the scope of the same
\* class around it is the viewpoint again.
C15_NoneScope ==
    [][/\ (/\ last'.op = "get"
           /\ ScopesOn(TypeOf(last'.inst)) # {}
           /\ InnermostOn(TypeOf(last'.inst)).timestamp = None) =>
             /\ exc' = NoErr
             /\ last'.form = "handle"
             /\ handle'.inst = last'.inst
             /\ handle'.value = CurIn(instance_current_values', last'.inst,
                                      last'.field)
       /\ (/\ Len(ctx_stack') < Len(ctx_stack)
           /\ Len(ctx_stack) >= 2
           /\ ctx_stack[Len(ctx_stack)].timestamp = None
           /\ ctx_stack[Len(ctx_stack) - 1].cls = ctx_stack[Len(ctx_stack)].cls
           /\ ctx_stack[Len(ctx_stack) - 1].timestamp # None) =>
             GetAttrTs(as_of_timestamp', ctx_stack[Len(ctx_stack)].cls) =
                ctx_stack[Len(ctx_stack) - 1].timestamp
      ]_vars

\* A current-mode read inside a None scope nested in a timestamp scope of the
\* same class.
C15_Witness ==
    /\ last.op = "get"
    /\ last.form = "handle"
    /\ Len(ctx_stack) = 2
    /\ ctx_stack[1].cls = TypeOf(last.inst)
    /\ ctx_stack[2].cls = TypeOf(last.inst)
    /\ ctx_stack[1].timestamp # None
    /\ ctx_stack[2].timestamp = None

\* C16: a commit through a handle commits the wrapped value when no value is
\* given and the given value otherwise, to the history of the pair the handle
\* is bound to, and returns what the descriptor's commit operation returns.
C16_HandleCommit ==
    [][last'.op = "commit" =>
          LET i == handle.inst
              f == handle.field
              v == IF last'.arg = None THEN handle.value ELSE last'.arg
              before == SnapsIn(instance_snapshots, i, f)
              after == SnapsIn(instance_snapshots', i, f)
          IN /\ last'.inst = i
             /\ last'.field = f
             /\ handle' = handle
             /\ CurIn(instance_current_values', i, f) = v
             /\ DOMAIN after = DOMAIN before \cup {now}
             /\ Content(objs', cells', after[now]) = Content(objs', cells', v)
             /\ \A k \in DOMAIN before \ {now} : after[k] = before[k]
             /\ last'.value = SetSnapshotForInstance(Store', f, i, v, now).ret
      ]_vars

\* A commit without a value recorded the wrapped value as a second snapshot
\* while another pair has a value.
C16_Witness ==
    /\ last.op = "commit"
    /\ last.arg = None
    /\ handle.value # None
    /\ LastCur = handle.value
    /\ Cardinality(DOMAIN LastSnaps) = 2
    /\ \E p \in Pairs : /\ p # <<last.inst, last.field>>
                        /\ SetIn(instance_value_set, p[1], p[2])

\* C17: a commit that ends without an error returns the timestamp under
\* which it inserted the snapshot.
C17_ReturnsTimestamp ==
    [][(/\ last'.op \in {"commit", "field_commit"}
        /\ last'.inst # NoInstance
        /\ exc' = NoErr) =>
          /\ now \in DOMAIN SnapsIn(instance_snapshots', last'.inst, last'.field)
          /\ last'.value = now]_vars

\* C18: the descriptor's set_snapshot called without an instance raises the
\* programmer error and changes no snapshot, current value, flag or
\* viewpoint.
C18_NoInstanceFailsFast ==
    [][(last'.op = "field_commit" /\ last'.inst = NoInstance) =>
          /\ exc' = "RuntimeError"
          /\ instance_snapshots' = instance_snapshots
          /\ instance_current_values' = instance_current_values
          /\ instance_value_set' = instance_value_set
          /\ objs' = objs
          /\ cells' = cells
          /\ as_of_timestamp' = as_of_timestamp
          /\ ctx_stack' = ctx_stack
          /\ handle' = handle]_vars

\* The call without an instance failed inside a scope, with histories
\* recorded for both instances.
C18_Witness ==
    /\ last.op = "field_commit"
    /\ last.inst = NoInstance
    /\ exc = "RuntimeError"
    /\ Viewpoint("c1") # None
    /\ \A p \in FieldPairs : SnapsIn(instance_snapshots, p[1], p[2]) # EmptyDict

\* C19: a commit of a value that cannot be deep-copied ends without an error
\* and creates the snapshot entry: a shallow copy of the value when it can be
\* copied so, the value itself otherwise.
C19_UncopyableNeverFails ==
    [][\A p \in HistPairs :
          LET v == CurIn(instance_current_values', p[1], p[2])
              after == SnapsIn(instance_snapshots', p[1], p[2])
          IN (/\ last'.op = "commit"
              /\ last'.inst = p[1]
              /\ last'.field = p[2]
              /\ IsRef(v)
              /\ objs'[v].kind # "deep") =>
                /\ exc' = NoErr
                /\ now \in DOMAIN after
                /\ IsRef(after[now])
                /\ objs'[after[now]].cell = objs'[v].cell
                /\ (objs'[v].kind = "shallow") => after[now] # v
                /\ (objs'[v].kind = "alias") => after[now] = v
      ]_vars

\* C20: a pair whose has-been-set flag is false has an empty history.
C20_UnsetHasNoHistory ==
    \A p \in Pairs :
       ~SetIn(instance_value_set, p[1], p[2]) =>
          SnapsIn(instance_snapshots, p[1], p[2]) = EmptyDict

\* A failed read created the per-instance data of a pair: the flag is false
\* and the history is the empty dictionary.
C20_Witness ==
    /\ last.op = "get"
    /\ exc = "ValueError"
    /\ last.inst \in DOMAIN instance_value_set[last.field]
    /\ ~instance_value_set[last.field][last.inst]
    /\ instance_snapshots[last.field][last.inst] = EmptyDict

C22_StablePast ==
    [][\A p \in HistPairs : \A t \in Time :
          (t < now /\ ~(\E o \in Refs : Mutate(o))) =>
             LET before == SnapsIn(instance_snapshots, p[1], p[2])
                 after == SnapsIn(instance_snapshots', p[1], p[2])
             IN /\ EntryAsOf(after, t) = EntryAsOf(before, t)
                /\ SeenAsOf(after, objs', cells', t) =
                      SeenAsOf(before, objs, cells, t)
      ]_vars

\* After two later commits, a read at the first timestamp returned the
\* snapshot of the lazy initialisation.
C22_Witness ==
    /\ last.op = "get"
    /\ last.form = "raw"
    /\ Viewpoint(last.inst) = 0
    /\ now = 2
    /\ DOMAIN LastSnaps = {0, 1, 2}
    /\ last.value = LastSnaps[0]
    /\ factory_calls[<<last.inst, last.field>>] = 1

\* C23: when the caller mutates in place the value a time-travel read has
\* just returned, a time-travel read at any viewpoint still gives what it
\* gave before the mutation.
C23_ReadOnlySnapshot ==
    [][\A o \in Refs : \A p \in HistPairs :
          (/\ last.op = "get"
           /\ last.form = "raw"
           /\ last.value = o
           /\ <<last.inst, last.field>> = p
           /\ Mutate(o)) =>
             LET H == SnapsIn(instance_snapshots, p[1], p[2])
             IN \A t \in Time : SeenAsOf(H, objs', cells', t) =
                                SeenAsOf(H, objs, cells, t)
      ]_vars

\* The pair was first written by a plain assignment: its flag is set and the
\* factory has not run for it.
AssignedFirst(p) ==
    SetIn(instance_value_set, p[1], p[2]) /\ factory_calls[p] = 0

\* C24: the factory runs, and creates the first entry, exactly in a
\* current-mode read that finds the flag false.  For a pair first written by
\* a plain assignment the factory never runs, reads leave the history as it
\* is, and while the history is empty every time-travel read fails with the
\* no-snapshot error; only a commit ends that.
C24_AssignedFirst ==
    [][\A p \in HistPairs :
          LET i == p[1]
              f == p[2]
              before == SnapsIn(instance_snapshots, i, f)
              after == SnapsIn(instance_snapshots', i, f)
              reads == last'.op = "get" /\ last'.inst = i /\ last'.field = f
          IN /\ (factory_calls'[p] # factory_calls[p]) <=>
                   (/\ reads
                    /\ Viewpoint(i) = None
                    /\ ~SetIn(instance_value_set, i, f))
             /\ (factory_calls'[p] # factory_calls[p]) =>
                   (before = EmptyDict /\ DOMAIN after = {now})
             /\ AssignedFirst(p) =>
                   /\ factory_calls'[p] = 0
                   /\ SetIn(instance_value_set', i, f)
                   /\ reads => after = before
                   /\ (last'.op # "commit") => after = before
                   /\ (reads /\ Viewpoint(i) # None /\ before = EmptyDict) =>
                         (exc' = "ValueError" /\ last'.form = "none")
                   /\ (reads /\ Viewpoint(i) = None) =>
                         /\ last'.form = "handle"
                         /\ last'.value = CurIn(instance_current_values, i, f)
      ]_vars

\* A time-travel read of a pair that was assigned, then read in current
\* mode, and never committed, failed at the latest viewpoint.
C24_Witness ==
    /\ last.op = "get"
    /\ exc = "ValueError"
    /\ AssignedFirst(<<last.inst, last.field>>)
    /\ LastCur # None
    /\ handle.inst = last.inst
    /\ handle.value = LastCur
    /\ Viewpoint(last.inst) = MaxTime
    /\ LastSnaps = EmptyDict

\* C25: a time-travel read of a pair that was never initialised, assigned or
\* committed fails with the no-snapshot error at every viewpoint, runs no
\* factory, creates no snapshot and leaves the flag false; a later read in
\* current mode, also after such failures, performs the lazy initialisation.
C25_UntouchedPair ==
    [][\A p \in HistPairs :
          LET i == p[1]
              f == p[2]
              after == SnapsIn(instance_snapshots', i, f)
              reads == last'.op = "get" /\ last'.inst = i /\ last'.field = f
              untouched == /\ ~SetIn(instance_value_set, i, f)
                           /\ SnapsIn(instance_snapshots, i, f) = EmptyDict
                           /\ factory_calls[p] = 0
          IN (reads /\ untouched) =>
                IF Viewpoint(i) # None
                THEN /\ exc' = "ValueError"
                     /\ last'.form = "none"
                     /\ factory_calls' = factory_calls
                     /\ after = EmptyDict
                     /\ ~SetIn(instance_value_set', i, f)
                     /\ CurIn(instance_current_values', i, f) = None
                ELSE /\ exc' = NoErr
                     /\ factory_calls'[p] = 1
                     /\ DOMAIN after = {now}
                     /\ SetIn(instance_value_set', i, f)
      ]_vars

\* A read at the latest viewpoint failed on a pair never touched.
C25_Witness ==
    /\ last.op = "get"
    /\ exc = "ValueError"
    /\ Viewpoint(last.inst) = MaxTime
    /\ now = MaxTime
    /\ ~SetIn(instance_value_set, last.inst, last.field)
    /\ last.inst \in DOMAIN instance_value_set[last.field]
    /\ writes = 0

\* C26: reads do not change state.  A current-mode read of a pair whose flag
\* is set, a time-travel read, and an operation a handle forwards to its
\* value leave every history, current value, flag and the viewpoint as they
\* were; of the operations on a handle only the commit changes a history.
C26_ReadsChangeNothing ==
    [][/\ (\/ last'.op = "value_op"
           \/ /\ last'.op = "get"
              /\ \/ Viewpoint(last'.inst) # None
                 \/ SetIn(instance_value_set, last'.inst, last'.field)) =>
             /\ PairsView(instance_snapshots', instance_current_values',
                          instance_value_set') =
                PairsView(instance_snapshots, instance_current_values,
                          instance_value_set)
             /\ as_of_timestamp' = as_of_timestamp
             /\ ctx_stack' = ctx_stack
             /\ factory_calls' = factory_calls
       /\ (last'.op = "value_op") => handle' = handle
      ]_vars

\* A forwarded operation on a handle whose pair has since been given another
\* current value and a second snapshot, inside a scope.
C26_Witness ==
    /\ last.op = "value_op"
    /\ handle.value # LastCur
    /\ Cardinality(DOMAIN LastSnaps) = 2
    /\ Viewpoint(last.inst) # None

AgreesWithNewest(snaps, cur, o, c, p) ==
    LET H == SnapsIn(snaps, p[1], p[2])
    IN H # EmptyDict =>
          Content(o, c, CurIn(cur, p[1], p[2])) = Content(o, c, H[SetMax(DOMAIN H)])

\* C28: unless a plain assignment or an in-place mutation has happened since
\* the last commit, the current value of a pair with a history is the value
\* of its newest snapshot: a commit, explicit or by lazy initialisation,
\* makes them agree, and every step that is neither an assignment nor a
\* mutation keeps them agreeing.
C28_CurrentIsNewest ==
    [][\A p \in HistPairs :
          LET commits == /\ last'.inst = p[1]
                         /\ last'.field = p[2]
                         /\ \/ last'.op = "commit"
                            \/ factory_calls'[p] # factory_calls[p]
              agreed == AgreesWithNewest(instance_snapshots,
                                         instance_current_values, objs, cells, p)
          IN (/\ last'.op # "set"
              /\ ~(\E o \in Refs : Mutate(o))
              /\ commits \/ agreed) =>
                AgreesWithNewest(instance_snapshots', instance_current_values',
                                 objs', cells', p)
      ]_vars

\* C29: a commit that ends with an error raised while the value is copied
\* leaves the current value, the flag and the history of its pair as they
\* were before the call.
C29_AllOrNothing ==
    [][(last'.op \in {"commit", "get"} /\ exc' = "CopyError") =>
          /\ CurIn(instance_current_values', last'.inst, last'.field) =
                CurIn(instance_current_values, last'.inst, last'.field)
          /\ SetIn(instance_value_set', last'.inst, last'.field) =
                SetIn(instance_value_set, last'.inst, last'.field)
          /\ SnapsIn(instance_snapshots', last'.inst, last'.field) =
                SnapsIn(instance_snapshots, last'.inst, last'.field)
      ]_vars

\* C30: once the concurrent commits of the threads have all completed, the
\* current value of the pair is the value of the snapshot that was inserted
\* last.
C30_AtomicCommits ==
    (\A t \in Threads : threads[t].pc = "done") =>
        \E t \in Threads :
           /\ \A u \in Threads : threads[u].seq <= threads[t].seq
           /\ CurIn(instance_current_values, ThreadPair[1], ThreadPair[2]) =
                 threads[t].copy

\* C31: when the threads all make the first current-mode read of the pair,
\* the factory is invoked at most once, and once the reads have all
\* completed exactly one of them has created a snapshot.
C31_LazyInitOnceConcurrently ==
    (\A t \in Threads : threads[t].op = "read") =>
        /\ factory_calls[ThreadPair] <= 1
        /\ (\A t \in Threads : threads[t].pc = "done") =>
              Cardinality({t \in Threads : threads[t].seq > 0}) = 1

\* C32: the viewpoint of a class is one variable that the scopes of all
\* threads write.  A read inside a thread's scope is resolved against the
\* viewpoint the class holds at that moment, which is the timestamp of
\* whichever thread set it last and not necessarily the reader's own; and a
\* scope that exits hands the class the viewpoint it saved at its entry,
\* whatever the other threads did since, so that when the exits do not
\* mirror the entries the class keeps a timestamp after every scope has
\* exited.
C32_ScopesShareViewpoint ==
    [][\A t \in Threads :
          /\ (threads[t].pc = "in_scope" /\ threads'[t].pc = "scoped_read") =>
                LET e == EntryAsOf(SnapsIn(instance_snapshots, ThreadPair[1],
                                           ThreadPair[2]),
                                   GetAttrTs(as_of_timestamp, ThreadClass))
                IN /\ threads'[t].seen = GetAttrTs(as_of_timestamp, ThreadClass)
                   /\ threads'[t].seen # None =>
                         threads'[t].form = IF e[1] = "error" THEN "error" ELSE "raw"
          /\ (threads[t].pc \in {"in_scope", "scoped_read"} /\ threads'[t].pc = "done") =>
                GetAttrTs(as_of_timestamp', ThreadClass) = threads[t].original_timestamp
      ]_vars

\* Thread 1 entered its scope at 0, where the pair has no snapshot, and its
\* read returned the snapshot that only thread 2's viewpoint, 1, reaches;
\* both scopes have exited, thread 1 first, and the class still holds a
\* timestamp.
C32_Witness ==
    /\ \A t \in Threads : threads[t].pc = "done"
    /\ threads[1].timestamp = 0
    /\ threads[2].timestamp = 1
    /\ threads[1].seen = 1
    /\ threads[1].form = "raw"
    /\ DOMAIN SnapsIn(instance_snapshots, ThreadPair[1], ThreadPair[2]) = {1}
    /\ GetAttrTs(as_of_timestamp, ThreadClass) = 0

\* C33: while the only active scope is one entered on the base class with a
\* timestamp t, a read on an instance of any derived class is resolved as
\* of t, as it is when no scope was entered before, whether or not scopes
\* were entered on the derived class and exited earlier.
C33_BaseScopeGoverns ==
    [][(/\ last'.op = "get"
        /\ Len(ctx_stack) = 1
        /\ ctx_stack[1].cls = "Anastasia"
        /\ ctx_stack[1].timestamp # None) =>
          ResolvedAsOf(last'.inst, last'.field, ctx_stack[1].timestamp)]_vars

\* C35: a read of the field on the class returns the descriptor, under any
\* viewpoint, with no error; it does not run the factory and leaves the
\* per-instance entries, histories, current values and flags as they were.
C35_ClassLevelAccess ==
    [][last'.op = "class_get" =>
          /\ last'.form = "descriptor"
          /\ exc' = NoErr
          /\ writes' = writes
          /\ factory_calls' = factory_calls
          /\ instance_snapshots' = instance_snapshots
          /\ instance_current_values' = instance_current_values
          /\ instance_value_set' = instance_value_set
          /\ as_of_timestamp' = as_of_timestamp]_vars

\* The class's field read inside a scope with a timestamp, before any
\* instance has a value for it.
C35_Witness ==
    /\ last.op = "class_get"
    /\ last.form = "descriptor"
    /\ GetAttrTs(as_of_timestamp, "Company") = 0
    /\ instance_snapshots["credit_rating"] = EmptyDict

\* The operations that access a pair through an instance.
AccessOps == {"get", "set", "commit", "field_commit"}

\* C34: an instance has an entry under a field exactly from its first read
\* (in either mode, failed or not), assignment or commit on; _snapshots
\* returns an empty mapping when the field has no entry, the history of the
\* instance when it has one, and raises the runtime error when it has two
\* or more; in every case it changes no state.
C34_SnapshotsAccessor ==
    [][/\ last'.op = "snapshots" =>
             LET D == DOMAIN instance_snapshots[last'.field]
             IN /\ instance_snapshots' = instance_snapshots
                /\ instance_current_values' = instance_current_values
                /\ instance_value_set' = instance_value_set
                /\ as_of_timestamp' = as_of_timestamp
                /\ factory_calls' = factory_calls
                /\ D = {} => exc' = NoErr /\ last'.form = "empty"
                /\ Cardinality(D) = 1 =>
                      exc' = NoErr /\ last'.form = "dict" /\ D = {last'.inst}
                /\ Cardinality(D) >= 2 =>
                      exc' = "RuntimeError" /\ last'.form = "none"
       /\ \A p \in FieldPairs :
             LET accessed == /\ last'.op \in AccessOps
                             /\ last'.inst = p[1]
                             /\ last'.field = p[2]
             IN /\ accessed => p[1] \in DOMAIN instance_snapshots'[p[2]]
                /\ (/\ p[1] \in DOMAIN instance_snapshots'[p[2]]
                    /\ p[1] \notin DOMAIN instance_snapshots[p[2]]) => accessed
      ]_vars

\* The accessor failed with two instances under the field, one of which
\* only made a read under a viewpoint, which found no snapshot.
C34_Witness ==
    /\ last.op = "snapshots"
    /\ exc = "RuntimeError"
    /\ DOMAIN instance_snapshots["credit_rating"] = {"c1", "c2"}
    /\ instance_snapshots["credit_rating"]["c1"] = EmptyDict
    /\ ~instance_value_set["credit_rating"]["c1"]
    /\ instance_snapshots["credit_rating"]["c2"] # EmptyDict

====
